---- MODULE Spec2Model ----
(***************************************************************************)
(* Model of src/minesweeper.py: the Minesweeper board, the Sentence        *)
(* constraint and the MinesweeperAI knowledge base with its two move       *)
(* selectors.  Cells are pairs <<i, j>> with 0-based row and column, as    *)
(* in the source.  A sentence is a record [cells, count]; knowledge is     *)
(* the list of sentences in the order the source keeps it.                 *)
(***************************************************************************)
EXTENDS Integers, Sequences, FiniteSets, TLC

VARIABLES height, width, board, moves_made, mines, safes, knowledge,
          op, arg_cell, arg_count, ret, calls, revealed

vars == <<height, width, board, moves_made, mines, safes, knowledge,
          op, arg_cell, arg_count, ret, calls, revealed>>

\* ---------------------------------------------------------------- bounds
MaxCells == 6
MaxCount == 3
MaxCalls == 3
MaxAnyCalls == 2
\* Longer plays on wider boards that hold few mines.
MaxWideCells == 8
MaxWideCalls == 4
MaxMines == 2
\* Knowledge lists handed to check_knowledge on its own.
MaxCheckCells == 3
MaxSentences == 2
\* Longer feeds of any counts on small boards.
MaxLongCells == 3
MaxLongCalls == 3
\* Boards played to the end.
MaxPlayCells == 8

\* Python's None (returned by the selectors) and a falsy "no result".
None == <<>>

\* ------------------------------------------------------------ the board
Cells(h, w) == {<<i, j>> : i \in 0..(h - 1), j \in 0..(w - 1)}

InBounds(h, w, c) == 0 <= c[1] /\ c[1] < h /\ 0 <= c[2] /\ c[2] < w

\* The 3x3 window around a cell in the order of the nested range() loops:
\* i from cell[0]-1 to cell[0]+1, j from cell[1]-1 to cell[1]+1.
Window(c) ==
    [k \in 1..9 |-> <<c[1] - 1 + ((k - 1) \div 3), c[2] - 1 + ((k - 1) % 3)>>]

\* Minesweeper.is_mine: board[i][j]
is_mine(b, c) == c \in b

\* Minesweeper.nearby_mines: mines within one row and column of the cell,
\* not counting the cell itself, counting only in-bounds cells.
nearby_mines(h, w, b, c) ==
    Cardinality({k \in 1..9 : /\ Window(c)[k] # c
                              /\ InBounds(h, w, Window(c)[k])
                              /\ is_mine(b, Window(c)[k])})

\* ------------------------------------------------------------- Sentence
Sentence(cs, n) == [cells |-> cs, count |-> n]

\* Sentence.__eq__
SentenceEq(a, b) == a.cells = b.cells /\ a.count = b.count

\* Faulty variant of known_mines: compares the count with one more than the
\* number of cells.
known_mines_OffByOne(s) ==
    IF s.count = Cardinality(s.cells) + 1 THEN <<s.cells>> ELSE <<>>

\* Sentence.known_mines: a copy of the cells when count == len(cells),
\* otherwise False.  The result is <<cells>> or <<>> (False).
known_mines(s) ==
    IF s.count = Cardinality(s.cells) THEN <<s.cells>> ELSE <<>>

\* Sentence.known_safes: a copy of the cells when count == 0, else False.
known_safes(s) ==
    IF s.count = 0 THEN <<s.cells>> ELSE <<>>

\* Python truthiness of such a result: False and the empty set are falsy.
Truthy(r) == r # <<>> /\ r[1] # {}

\* Faulty variant of Sentence.mark_mine: the count is decremented whether or
\* not the sentence holds the cell.
SentenceMarkMine_AlwaysDecrements(s, c) ==
    [cells |-> s.cells \ {c}, count |-> s.count - 1]

\* Faulty variant of Sentence.mark_mine: the count is not decremented.
SentenceMarkMine_NoDecrement(s, c) ==
    IF c \in s.cells THEN [cells |-> s.cells \ {c}, count |-> s.count]
    ELSE s

\* Sentence.mark_mine: remove the cell and decrement the count.
SentenceMarkMine(s, c) ==
    IF c \in s.cells THEN [cells |-> s.cells \ {c}, count |-> s.count - 1]
    ELSE s

\* Faulty variant of Sentence.mark_safe: the cell is not removed.
SentenceMarkSafe_KeepsCell(s, c) == s

\* Sentence.mark_safe: remove the cell, count unchanged.
SentenceMarkSafe(s, c) ==
    IF c \in s.cells THEN [cells |-> s.cells \ {c}, count |-> s.count]
    ELSE s

\* -------------------------------------------------------- MinesweeperAI
\* The part of the AI that the inference mutates, as a record.
AIState(mm, m, s, k) ==
    [moves_made |-> mm, mines |-> m, safes |-> s, knowledge |-> k]

\* MinesweeperAI.mark_mine
mark_mine(st, c) ==
    [st EXCEPT !.mines = @ \cup {c},
               !.knowledge = [x \in 1..Len(@) |-> SentenceMarkMine(@[x], c)]]

\* Faulty variant of MinesweeperAI.mark_safe: the sentences are not updated.
mark_safe_ForgetsSentences(st, c) == [st EXCEPT !.safes = @ \cup {c}]

\* MinesweeperAI.mark_safe
mark_safe(st, c) ==
    [st EXCEPT !.safes = @ \cup {c},
               !.knowledge = [x \in 1..Len(@) |-> SentenceMarkSafe(@[x], c)]]

\* "for c in some_set: self.mark_mine(c)"; the result does not depend on
\* the order in which the set is iterated.
RECURSIVE MarkAllMines(_, _)
MarkAllMines(st, cs) ==
    IF cs = {} THEN st
    ELSE LET c == CHOOSE x \in cs : TRUE
         IN MarkAllMines(mark_mine(st, c), cs \ {c})

RECURSIVE MarkAllSafes(_, _)
MarkAllSafes(st, cs) ==
    IF cs = {} THEN st
    ELSE LET c == CHOOSE x \in cs : TRUE
         IN MarkAllSafes(mark_safe(st, c), cs \ {c})

\* "x in list" with Sentence.__eq__
InKnowledge(k, s) == \E x \in 1..Len(k) : SentenceEq(k[x], s)

\* Faulty variant of list.remove(x): the last element is dropped instead.
ListRemove_PopsLast(k, s) == SubSeq(k, 1, Len(k) - 1)

\* list.remove(x): drop the first element equal to x.
ListRemove(k, s) ==
    LET first == CHOOSE x \in 1..Len(k) :
                     /\ SentenceEq(k[x], s)
                     /\ \A y \in 1..(x - 1) : ~SentenceEq(k[y], s)
    IN [x \in 1..(Len(k) - 1) |-> IF x < first THEN k[x] ELSE k[x + 1]]

\* What one scan of check_knowledge does with a sentence.
Simplifiable(s) ==
    \/ Cardinality(s.cells) = 0
    \/ Truthy(known_mines(s))
    \/ Truthy(known_safes(s))

\* The positions of the sentences a scan of check_knowledge would act on.
Hits(st) == {x \in 1..Len(st.knowledge) : Simplifiable(st.knowledge[x])}

\* One scan of check_knowledge that finds something: at the first sentence
\* that is empty, all mines or all safes, remove it or mark its cells.
check_scan(st) ==
    LET k == st.knowledge
        x == CHOOSE y \in Hits(st) : \A z \in Hits(st) : y <= z
        s == k[x]
    IN IF Cardinality(s.cells) = 0
       THEN [st EXCEPT !.knowledge = ListRemove(k, s)]
       ELSE IF Truthy(known_mines(s))
       THEN MarkAllMines(st, known_mines(s)[1])
       ELSE MarkAllSafes(st, known_safes(s)[1])

\* MinesweeperAI.check_knowledge: scan the list; when the scan acts on a
\* sentence, start over ("return self.check_knowledge()").
RECURSIVE check_knowledge(_)
check_knowledge(st) ==
    IF Hits(st) = {} THEN st ELSE check_knowledge(check_scan(st))

\* ------------------------------------------------------- add_knowledge
\* Faulty variant of steps 1 and 2: the move replaces the moves made so far.
RecordMove_Overwrites(st, c) ==
    LET st1 == [st EXCEPT !.moves_made = {c}]
    IN IF c \notin st1.safes THEN mark_safe(st1, c) ELSE st1

\* Faulty variant of steps 1 and 2: a cell already in mines is not marked
\* safe.
RecordMove_SkipsKnownMine(st, c) ==
    LET st1 == [st EXCEPT !.moves_made = @ \cup {c}]
    IN IF c \notin st1.safes /\ c \notin st1.mines THEN mark_safe(st1, c)
       ELSE st1

\* Faulty variant of steps 1 and 2: the move is not added to moves_made.
RecordMove_NotRecorded(st, c) ==
    IF c \notin st.safes THEN mark_safe(st, c) ELSE st

\* Steps 1 and 2: record the move, and mark the cell safe if it is not yet.
RecordMove(st, c) ==
    LET st1 == [st EXCEPT !.moves_made = @ \cup {c}]
    IN IF c \notin st1.safes THEN mark_safe(st1, c) ELSE st1

\* Faulty variant of the count == 0 loop: range(cell[0] - 1, cell[0] + 1)
\* leaves out the last row of the window.
RECURSIVE ZeroLoop_ShortRange(_, _, _, _, _)
ZeroLoop_ShortRange(h, w, st, c, k) ==
    IF k > 6 THEN st
    ELSE LET n == Window(c)[k]
         IN IF n = c THEN ZeroLoop_ShortRange(h, w, st, c, k + 1)
            ELSE IF InBounds(h, w, n) /\ n \notin st.safes /\ n \notin st.mines
            THEN ZeroLoop_ShortRange(h, w, mark_safe(st, n), c, k + 1)
            ELSE ZeroLoop_ShortRange(h, w, st, c, k + 1)

\* Faulty variant of the count == 0 loop: a neighbour already in mines is
\* marked safe too.
RECURSIVE ZeroLoop_NoMineCheck(_, _, _, _, _)
ZeroLoop_NoMineCheck(h, w, st, c, k) ==
    IF k > 9 THEN st
    ELSE LET n == Window(c)[k]
         IN IF n = c THEN ZeroLoop_NoMineCheck(h, w, st, c, k + 1)
            ELSE IF InBounds(h, w, n) /\ n \notin st.safes
            THEN ZeroLoop_NoMineCheck(h, w, mark_safe(st, n), c, k + 1)
            ELSE ZeroLoop_NoMineCheck(h, w, st, c, k + 1)

\* The count == 0 branch: every in-bounds neighbour that is neither in safes
\* nor in mines is marked safe, window position k onwards.
RECURSIVE ZeroLoop(_, _, _, _, _)
ZeroLoop(h, w, st, c, k) ==
    IF k > 9 THEN st
    ELSE LET n == Window(c)[k]
         IN IF n = c THEN ZeroLoop(h, w, st, c, k + 1)
            ELSE IF InBounds(h, w, n) /\ n \notin st.safes /\ n \notin st.mines
            THEN ZeroLoop(h, w, mark_safe(st, n), c, k + 1)
            ELSE ZeroLoop(h, w, st, c, k + 1)

\* The count != 0 branch: collect the cells of the new sentence and discount
\* the count, window position k onwards.  acc is the sentence so far.
RECURSIVE NewSentenceLoop(_, _, _, _, _, _)
NewSentenceLoop(h, w, st, c, k, acc) ==
    IF k > 9 THEN acc
    ELSE LET n == Window(c)[k]
         IN IF n = c THEN NewSentenceLoop(h, w, st, c, k + 1, acc)
            ELSE IF n \in st.safes THEN NewSentenceLoop(h, w, st, c, k + 1, acc)
            ELSE IF n \in st.mines
            THEN NewSentenceLoop(h, w, st, c, k + 1,
                                 [acc EXCEPT !.count = @ - 1])
            ELSE IF InBounds(h, w, n)
            THEN NewSentenceLoop(h, w, st, c, k + 1,
                                 [acc EXCEPT !.cells = @ \cup {n}])
            ELSE NewSentenceLoop(h, w, st, c, k + 1, acc)

\* Faulty variant of the new sentence: known mines among the neighbours are
\* left out of the cells but not discounted from the count.
NewSentence_NoDiscount(h, w, st, c, n) ==
    [NewSentenceLoop(h, w, st, c, 1, Sentence({}, n)) EXCEPT !.count = n]

\* The sentence add_knowledge builds for a reveal with a nonzero count.
NewSentence(h, w, st, c, n) == NewSentenceLoop(h, w, st, c, 1, Sentence({}, n))

\* The state just before the first check_knowledge.
BeforeCheck(h, w, st, c, n) ==
    LET st1 == RecordMove(st, c)
    IN IF n = 0 THEN ZeroLoop(h, w, st1, c, 1)
       ELSE [st1 EXCEPT !.knowledge =
                            Append(@, NewSentence(h, w, st1, c, n))]

\* The subset pass, inner loop: j runs over range(len(knowledge)) as it was
\* when the inner loop started (m), on the list k as it is now.
RECURSIVE SubsetInner(_, _, _, _)
SubsetInner(k, i, j, m) ==
    IF j > m THEN k
    ELSE IF SentenceEq(k[i], k[j]) THEN SubsetInner(k, i, j + 1, m)
    ELSE IF k[j].cells \subseteq k[i].cells /\ k[j].cells # k[i].cells
    THEN LET new_sentence == Sentence(k[i].cells \ k[j].cells,
                                      k[i].count - k[j].count)
         IN IF ~InKnowledge(k, new_sentence)
            THEN SubsetInner(Append(k, new_sentence), i, j + 1, m)
            ELSE SubsetInner(k, i, j + 1, m)
    ELSE SubsetInner(k, i, j + 1, m)

\* The subset pass, outer loop: i runs over range(len(knowledge)) as it was
\* when the pass started (n).
RECURSIVE SubsetOuter(_, _, _)
SubsetOuter(k, i, n) ==
    IF i > n THEN k
    ELSE SubsetOuter(SubsetInner(k, i, 1, Len(k)), i + 1, n)

\* Faulty variant of the subset pass: the outer loop starts at the second
\* sentence.
infer_subsets_SkipsFirst(k) == SubsetOuter(k, 2, Len(k))

\* The "Check subsets" pass of add_knowledge on a knowledge list.
infer_subsets(k) == SubsetOuter(k, 1, Len(k))

\* The state after the first check_knowledge.
AfterFirstCheck(h, w, st, c, n) == check_knowledge(BeforeCheck(h, w, st, c, n))

\* The state after the subset pass, before the second check_knowledge.
AfterSubsets(h, w, st, c, n) ==
    LET st3 == AfterFirstCheck(h, w, st, c, n)
    IN [st3 EXCEPT !.knowledge = infer_subsets(@)]

\* Faulty variant of add_knowledge: no check_knowledge after the subset pass.
add_knowledge_NoSecondCheck(h, w, st, c, n) == AfterSubsets(h, w, st, c, n)

\* MinesweeperAI.add_knowledge
add_knowledge(h, w, st, c, n) == check_knowledge(AfterSubsets(h, w, st, c, n))

\* ------------------------------------------------------ move selectors
\* Faulty variant of make_safe_move: cells already played are not skipped.
make_safe_move_Replays(st) ==
    LET ok == {c \in st.safes : c \notin st.mines}
    IN IF ok = {} THEN {None} ELSE ok

\* MinesweeperAI.make_safe_move: the cells the loop over self.safes can
\* return (the iteration order of a set is not fixed), or None.
make_safe_move(st) ==
    LET ok == {c \in st.safes : c \notin st.moves_made /\ c \notin st.mines}
    IN IF ok = {} THEN {None} ELSE ok

\* Faulty variant of make_random_move: known safe cells are not left out.
make_random_move_IgnoresSafes(h, w, st) ==
    LET possibilities ==
            {c \in Cells(h, w) : c \notin st.moves_made /\ c \notin st.mines}
    IN IF possibilities = {} THEN {None} ELSE possibilities

\* MinesweeperAI.make_random_move: the cells random.choice can return, or
\* None when there are no possibilities.
make_random_move(h, w, st) ==
    LET possibilities ==
            {c \in Cells(h, w) : /\ c \notin st.moves_made
                                 /\ c \notin st.safes
                                 /\ c \notin st.mines}
    IN IF possibilities = {} THEN {None} ELSE possibilities

\* ---------------------------------------------------------- the system
\* The AI object as a record of the current state.
AI == AIState(moves_made, mines, safes, knowledge)

\* The board sizes explored: every height x width of at most MaxCells cells.
Dims == {d \in (1..MaxCells) \X (1..MaxCells) : d[1] * d[2] <= MaxCells}

\* MinesweeperAI.__init__ for a board of some size; no observation yet.
InitAI ==
    /\ moves_made = {}
    /\ mines = {}
    /\ safes = {}
    /\ knowledge = <<>>
    /\ op = "init"
    /\ arg_cell = None
    /\ arg_count = 0
    /\ ret = None
    /\ calls = 0
    /\ revealed = {}

\* Any feed: the board layout plays no part.
Init ==
    /\ \E d \in Dims : height = d[1] /\ width = d[2]
    /\ board = {}
    /\ InitAI

\* Minesweeper.__init__: the board holds some set of mines.
InitBoard ==
    /\ \E d \in Dims : height = d[1] /\ width = d[2]
    /\ board \in SUBSET Cells(height, width)
    /\ InitAI

\* The AI fields after an operation that returned state st.
Becomes(st) ==
    /\ moves_made' = st.moves_made
    /\ mines' = st.mines
    /\ safes' = st.safes
    /\ knowledge' = st.knowledge

\* A call add_knowledge(c, n); limit bounds the number of calls explored.
AddKnowledge(c, n, limit) ==
    /\ calls < limit
    /\ Becomes(add_knowledge(height, width, AI, c, n))
    /\ op' = "add_knowledge"
    /\ arg_cell' = c
    /\ arg_count' = n
    /\ ret' = None
    /\ calls' = calls + 1
    /\ UNCHANGED <<height, width, board, revealed>>

\* add_knowledge with any in-bounds cell and any reported count.
AddAny == \E c \in Cells(height, width), n \in 0..MaxCount :
        AddKnowledge(c, n, MaxAnyCalls)

\* add_knowledge as the game loop feeds it: a cell that is not a mine, with
\* the board's count of its neighbouring mines.
AddConsistent ==
    \E c \in Cells(height, width) :
        /\ ~is_mine(board, c)
        /\ AddKnowledge(c, nearby_mines(height, width, board, c), MaxCalls)

\* A call make_safe_move().
SafeMove ==
    /\ \E r \in make_safe_move(AI) : ret' = r
    /\ op' = "make_safe_move"
    /\ arg_cell' = None
    /\ arg_count' = 0
    /\ UNCHANGED <<height, width, board, revealed, moves_made, mines, safes, knowledge,
                   calls>>

\* A call make_random_move().
RandomMove ==
    /\ \E r \in make_random_move(height, width, AI) : ret' = r
    /\ op' = "make_random_move"
    /\ arg_cell' = None
    /\ arg_count' = 0
    /\ UNCHANGED <<height, width, board, revealed, moves_made, mines, safes, knowledge,
                   calls>>

Next == AddAny \/ SafeMove \/ RandomMove

Spec == Init /\ [][Next]_vars

\* Only add_knowledge calls, with any feed.
SpecFeed == Init /\ [][AddAny]_vars

\* Only add_knowledge calls, with the feed of a board.
SpecConsistent == InitBoard /\ [][AddConsistent]_vars

\* A direct call mark_mine(c) on the AI.
MarkMine ==
    /\ calls < MaxAnyCalls
    /\ \E c \in Cells(height, width) :
           /\ Becomes(mark_mine(AI, c))
           /\ arg_cell' = c
    /\ op' = "mark_mine"
    /\ arg_count' = 0
    /\ ret' = None
    /\ calls' = calls + 1
    /\ UNCHANGED <<height, width, board, revealed>>

\* A direct call mark_safe(c) on the AI.
MarkSafe ==
    /\ calls < MaxAnyCalls
    /\ \E c \in Cells(height, width) :
           /\ Becomes(mark_safe(AI, c))
           /\ arg_cell' = c
    /\ op' = "mark_safe"
    /\ arg_count' = 0
    /\ ret' = None
    /\ calls' = calls + 1
    /\ UNCHANGED <<height, width, board, revealed>>

\* Minesweeper.__init__ with a small number of mines on a wider board.
InitWide ==
    /\ \E d \in (1..MaxWideCells) \X (1..MaxWideCells) :
           d[1] * d[2] <= MaxWideCells /\ height = d[1] /\ width = d[2]
    /\ board \in {b \in SUBSET Cells(height, width) : Cardinality(b) <= MaxMines}
    /\ InitAI

\* The board's feed, for longer plays.
AddConsistentWide ==
    \E c \in Cells(height, width) :
        /\ ~is_mine(board, c)
        /\ AddKnowledge(c, nearby_mines(height, width, board, c), MaxWideCalls)

\* Only add_knowledge calls, with the feed of a board, on the wider boards.
SpecWide == InitWide /\ [][AddConsistentWide]_vars

NextMark == AddAny \/ MarkMine \/ MarkSafe

SpecMark == Init /\ [][NextMark]_vars

\* check_knowledge on its own, one scan per step, on a board of one row.
InitCheck ==
    /\ height = 1
    /\ width = MaxCheckCells
    /\ board = {}
    /\ InitAI

\* check_knowledge is called on any list of at most MaxSentences sentences
\* over the cells of the row, with counts from -1 to MaxCount; op is
\* "check_knowledge" while the call is running.
CheckCall ==
    /\ op = "init"
    /\ \E n \in 0..MaxSentences :
           knowledge' \in [1..n -> [cells : SUBSET Cells(1, MaxCheckCells),
                                    count : (-1)..MaxCount]]
    /\ op' = "check_knowledge"
    /\ UNCHANGED <<height, width, board, revealed, moves_made, mines, safes,
                   arg_cell, arg_count, ret, calls>>

\* A scan that acts on a sentence and starts over; calls counts the restarts.
CheckScan ==
    /\ op = "check_knowledge"
    /\ Hits(AI) # {}
    /\ Becomes(check_scan(AI))
    /\ calls' = calls + 1
    /\ UNCHANGED <<height, width, board, revealed, op, arg_cell, arg_count, ret>>

\* A scan that finds nothing to do: check_knowledge returns.
CheckReturn ==
    /\ op = "check_knowledge"
    /\ Hits(AI) = {}
    /\ op' = "check_knowledge returned"
    /\ UNCHANGED <<height, width, board, revealed, moves_made, mines, safes, knowledge,
                   arg_cell, arg_count, ret, calls>>

NextCheck == CheckCall \/ CheckScan \/ CheckReturn

\* The running call is not suspended: it is single-threaded code that goes on
\* to its next scan.
SpecCheck == InitCheck /\ [][NextCheck]_vars /\ WF_vars(NextCheck)

\* Small boards, for longer feeds.
InitLong ==
    /\ \E d \in (1..MaxLongCells) \X (1..MaxLongCells) :
           d[1] * d[2] <= MaxLongCells /\ height = d[1] /\ width = d[2]
    /\ board = {}
    /\ InitAI

\* add_knowledge with any in-bounds cell and any reported count, for longer
\* feeds.
AddAnyLong == \E c \in Cells(height, width), n \in 0..MaxCount :
        AddKnowledge(c, n, MaxLongCalls)

SpecFeedLong == InitLong /\ [][AddAnyLong]_vars

\* A game on a fixed board, played by the AI alone: revealed holds the cells
\* the play has opened, op = "lost" ends it.
InitPlay ==
    /\ \E d \in (1..MaxPlayCells) \X (1..MaxPlayCells) :
           d[1] * d[2] <= MaxPlayCells /\ height = d[1] /\ width = d[2]
    /\ board \in SUBSET Cells(height, width)
    /\ InitAI

\* The cells the next move can be: make_safe_move() if it is not None,
\* otherwise make_random_move(); {None} when both return None.
PlayChoice(h, w, st) ==
    IF make_safe_move(st) # {None} THEN make_safe_move(st)
    ELSE make_random_move(h, w, st)

\* The move opens a cell that is not a mine: it is revealed and fed to
\* add_knowledge with its true count.
PlayReveal ==
    /\ op # "lost"
    /\ \E move \in PlayChoice(height, width, AI) :
           /\ move # None
           /\ ~is_mine(board, move)
           /\ ret' = move
           /\ revealed' = revealed \cup {move}
           /\ Becomes(add_knowledge(height, width, AI, move,
                                    nearby_mines(height, width, board, move)))
           /\ arg_cell' = move
           /\ arg_count' = nearby_mines(height, width, board, move)
    /\ op' = "add_knowledge"
    /\ calls' = calls + 1
    /\ UNCHANGED <<height, width, board>>

\* The move opens a mine: the game is lost and nothing is fed to the AI.
PlayLose ==
    /\ op # "lost"
    /\ \E move \in PlayChoice(height, width, AI) :
           /\ move # None
           /\ is_mine(board, move)
           /\ ret' = move
    /\ op' = "lost"
    /\ UNCHANGED <<height, width, board, revealed, moves_made, mines, safes,
                   knowledge, arg_cell, arg_count, calls>>

NextPlay == PlayReveal \/ PlayLose

SpecPlay == InitPlay /\ [][NextPlay]_vars

\* ============================================================== claims
\* The in-bounds 8-neighbours of a cell.
Neighbours(h, w, c) ==
    {n \in Cells(h, w) : /\ n # c
                         /\ n[1] - c[1] \in {-1, 0, 1}
                         /\ n[2] - c[2] \in {-1, 0, 1}}

\* The number of true mines among a set of cells.
TrueCount(cs) == Cardinality(cs \cap board)

\* C1: under a consistent feed, after every add_knowledge call mines is a
\* subset of the true mine set, safes holds no true mine, and every sentence
\* in knowledge has count equal to the number of true mines among its cells.
C1_Soundness ==
    /\ mines \subseteq board
    /\ safes \cap board = {}
    /\ \A x \in 1..Len(knowledge) :
           knowledge[x].count = TrueCount(knowledge[x].cells)

\* A mine has been deduced and a sentence with a mine in it is still held.
C1_Witness ==
    /\ op = "add_knowledge"
    /\ mines # {}
    /\ safes # {}
    /\ \E x \in 1..Len(knowledge) : knowledge[x].count >= 1

\* C2: make_safe_move returns a cell in safes that is in neither moves_made
\* nor mines, returns None exactly when there is no such cell, and leaves
\* moves_made, safes, mines and knowledge unchanged.
C2_SafeMove ==
    [][op' = "make_safe_move" =>
          /\ ret' # None =>
                 ret' \in safes /\ ret' \notin moves_made /\ ret' \notin mines
          /\ ret' = None <=>
                 ~\E c \in safes : c \notin moves_made /\ c \notin mines
          /\ UNCHANGED <<moves_made, safes, mines, knowledge>>]_vars

\* A safe move was returned while some safe cells were already played and
\* some cell is known to be a mine.
C2_Witness ==
    /\ op = "make_safe_move"
    /\ ret # None
    /\ moves_made # {}
    /\ mines # {}

C4_ZeroSaturation ==
    [][(op' = "add_knowledge" /\ arg_count' = 0) =>
          \A n \in Neighbours(height, width, arg_cell') :
              n \notin mines => n \in safes']_vars

\* A zero count was integrated on a board where the cell has several
\* neighbours, after earlier calls, and a neighbour is known safe but
\* not yet played.
C4_Witness ==
    /\ op = "add_knowledge"
    /\ arg_count = 0
    /\ Cardinality(Neighbours(height, width, arg_cell)) >= 3
    /\ Neighbours(height, width, arg_cell) \subseteq safes
    /\ \E n \in Neighbours(height, width, arg_cell) : n \notin moves_made

\* C5: under a consistent feed, when the sentence built by add_knowledge has
\* count equal to its number of cells, at least 1, then on return all its
\* cells are in mines and the sentence is not in knowledge; on the 1x2 board
\* with the only mine at (0,1), add_knowledge((0,0), 1) ends with mines equal
\* to the true mine set.
C5_AllMinesSaturation ==
    [][(op' = "add_knowledge" /\ arg_count' # 0) =>
          LET st1 == RecordMove(AI, arg_cell')
              s == NewSentence(height, width, st1, arg_cell', arg_count')
          IN /\ (s.count = Cardinality(s.cells) /\ Cardinality(s.cells) >= 1) =>
                    /\ s.cells \subseteq mines'
                    /\ ~InKnowledge(knowledge', s)
             /\ (/\ height = 1
                 /\ width = 2
                 /\ board = {<<0, 1>>}
                 /\ arg_cell' = <<0, 0>>
                 /\ arg_count' = 1) => mines' = {<<0, 1>>}]_vars

\* The 1x2 board with its only mine at (0,1), after (0,0) was revealed.
C5_Witness ==
    /\ height = 1
    /\ width = 2
    /\ board = {<<0, 1>>}
    /\ op = "add_knowledge"
    /\ arg_cell = <<0, 0>>
    /\ arg_count = 1
    /\ mines = board

\* C6 as stated: for any feed of in-bounds cells and counts, no cell is in
\* both mines and safes.
C6_DisjointAnyFeed == mines \cap safes = {}

\* C6 amended: an add_knowledge call for a cell that is not in mines at the
\* time of the call (count consistent or not) keeps mines and safes disjoint,
\* so they are disjoint as long as no known mine is revealed.
C6_Disjoint ==
    [][(/\ op' = "add_knowledge"
        /\ arg_cell' \notin mines
        /\ mines \cap safes = {}) => mines' \cap safes' = {}]_vars

\* Mines and safes have both been deduced from an inconsistent feed that
\* revealed no known mine.
C6_Witness ==
    /\ op = "add_knowledge"
    /\ moves_made \cap mines = {}
    /\ mines # {}
    /\ Cardinality(safes) >= 2
    /\ mines \cap safes = {}
    /\ \E x \in 1..Len(knowledge) :
           knowledge[x].count > Cardinality(knowledge[x].cells)

\* C7 as stated: knowledge never holds two sentences that are equal by value.
C7_NoDuplicateSentences ==
    \A x, y \in 1..Len(knowledge) :
        x # y => ~SentenceEq(knowledge[x], knowledge[y])

\* Every sentence of a knowledge list has 0 <= count <= number of cells.
CountsInRange(k) ==
    \A x \in 1..Len(k) : 0 <= k[x].count /\ k[x].count <= Cardinality(k[x].cells)

\* C8: after every add_knowledge, mark_mine or mark_safe call no sentence in
\* knowledge contains a cell that is in mines or in safes; mark_mine takes the
\* cell out of each sentence holding it and lowers that sentence's count by
\* exactly 1, mark_safe takes it out and leaves the count as it was, and
\* sentences not holding the cell are untouched.
C8_KnownCellsExcluded ==
    [][/\ \A x \in 1..Len(knowledge') :
              knowledge'[x].cells \cap (mines' \cup safes') = {}
       /\ op' \in {"mark_mine", "mark_safe"} =>
              /\ Len(knowledge') = Len(knowledge)
              /\ \A x \in 1..Len(knowledge) :
                     IF arg_cell' \in knowledge[x].cells
                     THEN /\ knowledge'[x].cells =
                                 knowledge[x].cells \ {arg_cell'}
                          /\ knowledge'[x].count =
                                 knowledge[x].count
                                     - (IF op' = "mark_mine" THEN 1 ELSE 0)
                     ELSE knowledge'[x] = knowledge[x]]_vars

\* A direct mark_mine took a cell out of a held sentence: a sentence with
\* cells left and count 0 is held, which add_knowledge never leaves behind.
C8_Witness ==
    /\ op = "mark_mine"
    /\ arg_cell \in mines
    /\ \E x \in 1..Len(knowledge) :
           knowledge[x].count = 0 /\ knowledge[x].cells # {}

\* C9: under a consistent feed, after each of the two check_knowledge passes
\* of add_knowledge every sentence in knowledge has 0 <= count <= number of
\* its cells.
C9_CountsInRange ==
    [][op' = "add_knowledge" =>
          /\ CountsInRange(AfterFirstCheck(height, width, AI, arg_cell',
                                           arg_count').knowledge)
          /\ CountsInRange(knowledge')]_vars

\* Two sentences are held after a call, one of them with more cells than
\* mines and one that had a known mine taken out of it or discounted.
C9_Witness ==
    /\ op = "add_knowledge"
    /\ mines # {}
    /\ Len(knowledge) >= 2
    /\ \E x \in 1..Len(knowledge) :
           /\ 1 <= knowledge[x].count
           /\ knowledge[x].count < Cardinality(knowledge[x].cells)

\* C10 as stated: the subset pass of add_knowledge appends no derived sentence
\* whose count is negative or greater than its number of cells (the source
\* has no diagnostic channel, so such a sentence must not reach knowledge).
C10_NoInconsistentDerived ==
    [][op' = "add_knowledge" =>
          LET k3 == AfterFirstCheck(height, width, AI, arg_cell',
                                    arg_count').knowledge
              k4 == infer_subsets(k3)
          IN \A x \in (Len(k3) + 1)..Len(k4) :
                 /\ 0 <= k4[x].count
                 /\ k4[x].count <= Cardinality(k4[x].cells)]_vars

\* The distinct sentence values a knowledge list holds.
SentenceValues(k) == {k[x] : x \in 1..Len(k)}

\* C11: under a consistent feed, an add_knowledge call that repeats the call
\* just made (same cell, same count) leaves moves_made, safes and mines
\* unchanged and leaves the set of distinct sentence values unchanged.
C11_DuplicateIdempotent ==
    [][(/\ op = "add_knowledge"
        /\ op' = "add_knowledge"
        /\ arg_cell' = arg_cell
        /\ arg_count' = arg_count) =>
          /\ moves_made' = moves_made
          /\ safes' = safes
          /\ mines' = mines
          /\ SentenceValues(knowledge') = SentenceValues(knowledge)]_vars

\* The size of a knowledge list: its sentences plus all their cells.
RECURSIVE ListSize(_)
ListSize(k) ==
    IF k = <<>> THEN 0 ELSE 1 + Cardinality(Head(k).cells) + ListSize(Tail(k))

\* C12: check_knowledge, started from any knowledge list (negative and
\* over-large counts included), returns after finitely many restarts: the
\* restarts made so far plus the size of the list never exceed the largest
\* size a list can start with, and a call that has returned holds no sentence
\* a scan would act on.
C12_CheckTerminates ==
    /\ calls + ListSize(knowledge) <= MaxSentences * (1 + MaxCheckCells)
    /\ op = "check_knowledge returned" => Hits(AI) = {}

\* The call returned after marking a mine, which left a held sentence with a
\* negative count that no scan can resolve.
C12_Witness ==
    /\ op = "check_knowledge returned"
    /\ calls >= 1
    /\ mines # {}
    /\ \E x \in 1..Len(knowledge) :
           knowledge[x].count < 0 /\ knowledge[x].cells # {}

\* The old list k lives on in the new list k2: some first sentences of k2 are
\* sentences of k, in their order, with no cell that the old sentence did not
\* have, and every sentence of k that still has a cell outside known is among
\* them.
LivesOn(k, k2, known) ==
    \E n \in 0..Len(k2) :
        \E f \in [1..n -> 1..Len(k)] :
            /\ \A x, y \in 1..n : x < y => f[x] < f[y]
            /\ \A x \in 1..n : k2[x].cells \subseteq k[f[x]].cells
            /\ \A y \in 1..Len(k) :
                   k[y].cells \ known # {} => \E x \in 1..n : f[x] = y

\* C13: across every add_knowledge call (and every direct mark_mine or
\* mark_safe call) mines, safes and moves_made only grow, and the sentences
\* held before the call only lose cells: none gains a cell, and none that
\* still has an undetermined cell disappears.
C13_Monotone ==
    [][/\ mines \subseteq mines'
       /\ safes \subseteq safes'
       /\ moves_made \subseteq moves_made'
       /\ LivesOn(knowledge, knowledge', mines' \cup safes')]_vars

\* After a second call, a known mine, a played cell and two held sentences.
C13_Witness ==
    /\ op = "add_knowledge"
    /\ calls >= 2
    /\ mines # {}
    /\ Cardinality(moves_made) >= 2
    /\ Len(knowledge) >= 2

\* C14: from any reachable state and for any cell, mark_mine twice gives the
\* same mines, safes, moves_made and sentences (cells and counts) as mark_mine
\* once, and likewise mark_safe.
C14_MarkIdempotent ==
    \A c \in Cells(height, width) :
        /\ mark_mine(mark_mine(AI, c), c) = mark_mine(AI, c)
        /\ mark_safe(mark_safe(AI, c), c) = mark_safe(AI, c)

\* A direct mark_safe took a cell out of a held sentence and left it with as
\* many mines as cells, which add_knowledge never leaves behind.
C14_Witness ==
    /\ op = "mark_safe"
    /\ arg_cell \in safes
    /\ \E x \in 1..Len(knowledge) :
           /\ knowledge[x].cells # {}
           /\ knowledge[x].count = Cardinality(knowledge[x].cells)

\* C15: after every add_knowledge call, for any feed, every cell in
\* moves_made is in safes.
C15_MovesAreSafe == \A c \in moves_made : c \in safes

\* Two cells have been played, one of them a cell that was already in mines.
C15_Witness ==
    /\ op = "add_knowledge"
    /\ Cardinality(moves_made) >= 2
    /\ arg_cell \in mines

\* The sentence the claim describes for a reveal of cell c with count n in
\* state st: the in-bounds neighbours in neither safes nor mines, with the
\* count less the neighbours in mines that the loop does not skip as safe
\* first ("if (i, j) in self.safes: continue" comes before the mines test).
ExpectedSentence(h, w, st, c, n) ==
    Sentence(Neighbours(h, w, c) \ (st.safes \cup st.mines),
             n - Cardinality((Neighbours(h, w, c) \cap st.mines) \ st.safes))

C17_SubsetPass ==
    [][op' = "add_knowledge" =>
          LET k3 == AfterFirstCheck(height, width, AI, arg_cell',
                                    arg_count').knowledge
              k4 == AfterSubsets(height, width, AI, arg_cell',
                                 arg_count').knowledge
          IN \A i, j \in 1..Len(k3) :
                 (k3[j].cells \subseteq k3[i].cells /\ k3[j].cells # k3[i].cells)
                 => LET d == Sentence(k3[i].cells \ k3[j].cells,
                                      k3[i].count - k3[j].count)
                    IN /\ \E x \in 1..Len(k4) : k4[x] = d
                       /\ d.count = Cardinality(d.cells) =>
                              d.cells \subseteq mines']_vars

\* The 2x3 board with mines at (0,2), (1,0) and (1,2) after (0,0) and (0,1)
\* were revealed: {(0,2),(1,2)} = 2 comes from the subset pass alone, and both
\* cells are known mines.
C17_Witness ==
    /\ height = 2
    /\ width = 3
    /\ board = {<<0, 2>>, <<1, 0>>, <<1, 2>>}
    /\ op = "add_knowledge"
    /\ moves_made = {<<0, 0>>, <<0, 1>>}
    /\ {<<0, 2>>, <<1, 2>>} \subseteq mines

\* C18: when add_knowledge returns, for any feed, knowledge holds no sentence
\* with an empty cell set, none whose count equals the number of its cells
\* and none whose count is 0.
C18_Fixpoint ==
    \A x \in 1..Len(knowledge) :
        /\ knowledge[x].cells # {}
        /\ knowledge[x].count # Cardinality(knowledge[x].cells)
        /\ knowledge[x].count # 0

\* After a second call with safes and mines deduced, knowledge still holds a
\* sentence derived by the subset pass with a negative count and a sentence
\* with fewer mines than cells.
C18_Witness ==
    /\ op = "add_knowledge"
    /\ calls >= 2
    /\ \E x \in 1..Len(knowledge) : knowledge[x].count < 0
    /\ \E x \in 1..Len(knowledge) :
           /\ 1 <= knowledge[x].count
           /\ knowledge[x].count < Cardinality(knowledge[x].cells)

\* C19: in a play on a fixed board that takes make_safe_move() when it is not
\* None and make_random_move() otherwise, and feeds every revealed cell with
\* its true count, no cell is chosen twice, and when both selectors return
\* None and no mine was revealed, mines is the board's mine set.
C19_Play ==
    /\ [][ret' \notin revealed]_vars
    /\ []((/\ op # "lost"
           /\ make_safe_move(AI) = {None}
           /\ make_random_move(height, width, AI) = {None})
          => mines = board)

\* A play that opened at least two cells of a board with mines, lost nothing
\* and has no move left.
C19_Witness ==
    /\ op = "add_knowledge"
    /\ Cardinality(revealed) >= 2
    /\ board # {}
    /\ PlayChoice(height, width, AI) = {None}

====
